---- MODULE Spec2Model ----
(***************************************************************************)
(* The FrenchDeck example of _posts/notes_data_model.py: a namedtuple Card, *)
(* the class FrenchDeck (__init__, __len__, __getitem__) and the notebook   *)
(* cells that use a deck through len, choice, type, slicing, for,           *)
(* reversed and sorted.  A cell runs to completion before the next one      *)
(* starts; the loops of a cell are modelled one iteration per step.         *)
(***************************************************************************)
EXTENDS Integers, Sequences, FiniteSets, TLC

\* Integer positions -MaxPos..MaxPos are tried as arguments of __getitem__.
MaxPos == 53
\* Slice bounds None and -MaxSlice..MaxSlice are tried as slice(start, stop).
MaxSlice == 3

VARIABLES
    cards,      \* deck._cards, the list held by the deck object
    pc,         \* the cell that is running, "idle" between cells
    call,       \* the operation the last started cell performs, with its argument
    result,     \* the value or exception of the last cell
    it_index,   \* the index field of the iterator the running loop uses
    lst,        \* the list sorted() builds and sorts
    yielded,    \* per loop cell: the elements bound to the loop variable so far
    stdout,     \* per loop cell: the lines printed so far
    done        \* the loop cells whose last run has finished

vars == <<cards, pc, call, result, it_index, lst, yielded, stdout, done>>

----------------------------------------------------------------------------
\* Python values

None == [isNone |-> TRUE, v |-> 0]
Some(n) == [isNone |-> FALSE, v |-> n]

NoneResult == [kind |-> "None"]
IndexError == [kind |-> "IndexError"]
IntResult(n) == [kind |-> "int", value |-> n]
CardResult(c) == [kind |-> "Card", value |-> c]
ListResult(l) == [kind |-> "list", value |-> l]
TypeResult(t) == [kind |-> "type", value |-> t]

IntPosition(i) == [kind |-> "int", i |-> i, start |-> None, stop |-> None]
SlicePosition(start, stop) == [kind |-> "slice", i |-> 0, start |-> start, stop |-> stop]
NoPosition == [kind |-> "none", i |-> 0, start |-> None, stop |-> None]

Digits == <<"0", "1", "2", "3", "4", "5", "6", "7", "8", "9">>

\* str(n) for a non-negative int: its decimal digits
RECURSIVE int_str(_)
int_str(n) == IF n < 10 THEN Digits[n + 1]
              ELSE int_str(n \div 10) \o Digits[(n % 10) + 1]

\* range(a, b) as the sequence a, a+1, ..., b-1
range(a, b) == [k \in 1..(b - a) |-> a + k - 1]

\* repr(s) of a str without quote characters or escapes: s in single quotes
str_repr(s) == "'" \o s \o "'"

----------------------------------------------------------------------------
\* Card and FrenchDeck

Card(rank, suit) == [rank |-> rank, suit |-> suit]

\* a faulty variant: the suit left out of the representation
Card_repr_rank_only(card) == "Card" \o "(" \o "rank=" \o str_repr(card.rank) \o ")"

\* namedtuple's __repr__: Card(rank='7', suit='hearts'); print(card) uses it,
\* a namedtuple defining no __str__
Card_repr(card) ==
    "Card" \o "(" \o "rank=" \o str_repr(card.rank) \o ", "
           \o "suit=" \o str_repr(card.suit) \o ")"

\* the __repr__ of the notes' example class: f"Card({self.rank!r}, {self.suit!r})"
CardExample_repr(card) ==
    "Card(" \o str_repr(card.rank) \o ", " \o str_repr(card.suit) \o ")"

ranks == [k \in 1..9 |-> int_str(range(2, 11)[k])] \o <<"J", "Q", "K", "A">>
suits == <<"spades", "diamonds", "clubs", "hearts">>

\* [Card(rank, suit) for suit in self.suits for rank in self.ranks]
RECURSIVE ForRank(_, _)
ForRank(suit, j) ==
    IF j > Len(ranks) THEN <<>>
    ELSE <<Card(ranks[j], suit)>> \o ForRank(suit, j + 1)

RECURSIVE ForSuit(_)
ForSuit(i) ==
    IF i > Len(suits) THEN <<>>
    ELSE ForRank(suits[i], 1) \o ForSuit(i + 1)

\* a faulty variant: the loops exchanged, for rank in self.ranks for suit in self.suits
FrenchDeck_init_rank_outer ==
    [k \in 1..(Len(ranks) * Len(suits)) |->
        Card(ranks[((k - 1) \div Len(suits)) + 1], suits[((k - 1) % Len(suits)) + 1])]

FrenchDeck_init == ForSuit(1)

\* a faulty variant: the last index returned for the length
FrenchDeck_len_last(self_cards) == Len(self_cards) - 1

FrenchDeck_len(self_cards) == Len(self_cards)

\* a faulty variant: the bound check one too strict, the last item out of reach
list_item_short(l, i) ==
    LET n == Len(l)
        j == IF i < 0 THEN i + n ELSE i
    IN  IF j < 0 \/ j >= n - 1 THEN IndexError ELSE CardResult(l[j + 1])

\* a faulty variant: a negative index counted from the last item, not from the end
list_item_neg(l, i) ==
    LET n == Len(l)
        j == IF i < 0 THEN i + n - 1 ELSE i
    IN  IF j < 0 \/ j >= n THEN IndexError ELSE CardResult(l[j + 1])

\* list[i] for an int i: a negative i counts from the end, then the bound check
list_item(l, i) ==
    LET n == Len(l)
        j == IF i < 0 THEN i + n ELSE i
    IN  IF j < 0 \/ j >= n THEN IndexError ELSE CardResult(l[j + 1])

\* the bound of a slice clamped into 0..n, None giving the default
slice_bound(b, n, default) ==
    IF b.isNone THEN default
    ELSE IF b.v < 0 THEN (IF b.v + n < 0 THEN 0 ELSE b.v + n)
    ELSE IF b.v > n THEN n ELSE b.v

\* a faulty variant: the item before stop left out
list_slice_short(l, start, stop) ==
    LET n  == Len(l)
        lo == slice_bound(start, n, 0)
        hi == slice_bound(stop, n, n)
    IN  ListResult(IF hi - 1 > lo THEN SubSeq(l, lo + 1, hi - 1) ELSE <<>>)

\* list[start:stop]: a new list of the items at start..stop-1
list_slice(l, start, stop) ==
    LET n  == Len(l)
        lo == slice_bound(start, n, 0)
        hi == slice_bound(stop, n, n)
    IN  ListResult(IF hi > lo THEN SubSeq(l, lo + 1, hi) ELSE <<>>)

\* return self._cards[position]
FrenchDeck_getitem(self_cards, position) ==
    IF position.kind = "int" THEN list_item(self_cards, position.i)
    ELSE list_slice(self_cards, position.start, position.stop)

\* iter(deck) on a class with __getitem__ and no __iter__: a sequence iterator
\* starting at index 0
iter_new == 0

\* a faulty variant: the iteration ends one item early
iter_next_early(self_cards, index) ==
    LET r    == FrenchDeck_getitem(self_cards, IntPosition(index))
        peek == FrenchDeck_getitem(self_cards, IntPosition(index + 1))
    IN  IF peek.kind = "IndexError"
        THEN [stop |-> TRUE, index |-> index]
        ELSE [stop |-> FALSE, index |-> index + 1, item |-> r.value]

\* next() of the sequence iterator: the item at index, the index advanced;
\* an IndexError from __getitem__ ends the iteration and is cleared
iter_next(self_cards, index) ==
    LET r == FrenchDeck_getitem(self_cards, IntPosition(index))
    IN  IF r.kind = "IndexError"
        THEN [stop |-> TRUE, index |-> index]
        ELSE [stop |-> FALSE, index |-> index + 1, item |-> r.value]

\* a faulty variant: the reversed iterator starts one item before the last
reversed_new_short(self_cards) == FrenchDeck_len(self_cards) - 2

\* reversed(deck) on a class with __len__ and __getitem__ and no __reversed__:
\* an iterator starting at index len(deck) - 1
reversed_new(self_cards) == FrenchDeck_len(self_cards) - 1

\* next() of the reversed iterator: the item at index, the index lowered
reversed_next(self_cards, index) ==
    LET r == FrenchDeck_getitem(self_cards, IntPosition(index))
    IN  IF index >= 0 /\ r.kind # "IndexError"
        THEN [stop |-> FALSE, index |-> index - 1, item |-> r.value]
        ELSE [stop |-> TRUE, index |-> 0 - 1]

\* l.index(x): the zero-based position of the first item equal to x
list_index(l, x) ==
    (CHOOSE i \in 1..Len(l) : l[i] = x /\ \A j \in 1..(i - 1) : l[j] # x) - 1

suit_vals == ("spades" :> 3) @@ ("hearts" :> 2) @@ ("diamonds" :> 1) @@ ("clubs" :> 0)

spades_high(card) ==
    LET rank_value == list_index(ranks, card.rank)
    IN  rank_value * Cardinality(DOMAIN suit_vals) + suit_vals[card.suit]

\* a faulty variant: the comparison turned round, the list comes out descending
RECURSIVE sort_insert_desc(_, _)
sort_insert_desc(s, x) ==
    IF s = <<>> THEN <<x>>
    ELSE IF s[Len(s)].key >= x.key THEN Append(s, x)
    ELSE Append(sort_insert_desc(SubSeq(s, 1, Len(s) - 1), x), s[Len(s)])

\* one insertion of list.sort: x goes after every item whose key is not greater
RECURSIVE sort_insert(_, _)
sort_insert(s, x) ==
    IF s = <<>> THEN <<x>>
    ELSE IF s[Len(s)].key <= x.key THEN Append(s, x)
    ELSE Append(sort_insert(SubSeq(s, 1, Len(s) - 1), x), s[Len(s)])

RECURSIVE sort_prefix(_, _)
sort_prefix(s, n) ==
    IF n = 0 THEN <<>> ELSE sort_insert(sort_prefix(s, n - 1), s[n])

\* list.sort with the keys computed once, keys[k] the key of l[k]: a stable
\* insertion sort on the keys (what list.sort does below 64 items), ascending
list_sort(l, keys) ==
    LET keyed == [k \in 1..Len(l) |-> [key |-> keys[k], item |-> l[k]]]
        out   == sort_prefix(keyed, Len(l))
    IN  [k \in 1..Len(l) |-> out[k].item]

\* sorted(l, key=spades_high) on the list l made from the iterable
sorted_spades_high(l) == list_sort(l, [k \in 1..Len(l) |-> spades_high(l[k])])

Cells == {"for", "reversed", "sorted"}

----------------------------------------------------------------------------

Init ==
    /\ cards = FrenchDeck_init
    /\ pc = "idle"
    /\ call = [op |-> "init", position |-> NoPosition]
    /\ result = NoneResult
    /\ it_index = 0
    /\ lst = <<>>
    /\ yielded = [c \in Cells |-> <<>>]
    /\ stdout = [c \in Cells |-> <<>>]
    /\ done = {}

\* deck = FrenchDeck(); len(deck)
LenCell ==
    /\ pc = "idle"
    /\ cards' = FrenchDeck_init
    /\ call' = [op |-> "len", position |-> NoPosition]
    /\ result' = IntResult(FrenchDeck_len(cards'))
    /\ UNCHANGED <<pc, it_index, lst, yielded, stdout, done>>

\* choice(deck): seq[randbelow(len(seq))]
ChoiceCell ==
    /\ pc = "idle"
    /\ \E k \in 0..(FrenchDeck_len(cards) - 1) :
          /\ call' = [op |-> "choice", position |-> IntPosition(k)]
          /\ result' = FrenchDeck_getitem(cards, IntPosition(k))
    /\ UNCHANGED <<cards, pc, it_index, lst, yielded, stdout, done>>

\* type(deck)
TypeCell ==
    /\ pc = "idle"
    /\ call' = [op |-> "type", position |-> NoPosition]
    /\ result' = TypeResult("FrenchDeck")
    /\ UNCHANGED <<cards, pc, it_index, lst, yielded, stdout, done>>

\* deck[i] for an int i
GetItem ==
    /\ pc = "idle"
    /\ \E i \in (0 - MaxPos)..MaxPos :
          /\ call' = [op |-> "getitem", position |-> IntPosition(i)]
          /\ result' = FrenchDeck_getitem(cards, IntPosition(i))
    /\ UNCHANGED <<cards, pc, it_index, lst, yielded, stdout, done>>

SliceArgs == {None} \cup {Some(n) : n \in (0 - MaxSlice)..MaxSlice}

\* deck[:3], and deck[start:stop] for the other small bounds
SliceCell ==
    /\ pc = "idle"
    /\ \E start \in SliceArgs, stop \in SliceArgs :
          /\ call' = [op |-> "getitem", position |-> SlicePosition(start, stop)]
          /\ result' = FrenchDeck_getitem(cards, SlicePosition(start, stop))
    /\ UNCHANGED <<cards, pc, it_index, lst, yielded, stdout, done>>

\* a loop cell starts: its output is cleared
StartCell(c, op) ==
    /\ pc = "idle"
    /\ call' = [op |-> op, position |-> NoPosition]
    /\ result' = NoneResult
    /\ yielded' = [yielded EXCEPT ![c] = <<>>]
    /\ stdout' = [stdout EXCEPT ![c] = <<>>]
    /\ done' = done \ {c}

\* the loop body print(card) with card bound to item
PrintCard(c, item) ==
    /\ yielded' = [yielded EXCEPT ![c] = Append(@, item)]
    /\ stdout' = [stdout EXCEPT ![c] = Append(@, Card_repr(item))]

\* the loop of cell c is over and the cell returns
EndCell(c) ==
    /\ pc' = "idle"
    /\ done' = done \cup {c}
    /\ UNCHANGED <<yielded, stdout>>

\* for card in deck: the iterator is made
ForStart ==
    /\ StartCell("for", "for")
    /\ pc' = "for"
    /\ it_index' = iter_new
    /\ UNCHANGED <<cards, lst>>

\* for card in deck: print(card), one iteration
ForNext ==
    /\ pc = "for"
    /\ LET n == iter_next(cards, it_index)
       IN  /\ it_index' = n.index
           /\ IF n.stop THEN EndCell("for")
              ELSE PrintCard("for", n.item) /\ UNCHANGED <<pc, done>>
    /\ UNCHANGED <<cards, call, result, lst>>

\* for reversed_card in reversed(deck): the iterator is made
ReversedStart ==
    /\ StartCell("reversed", "reversed")
    /\ pc' = "reversed"
    /\ it_index' = reversed_new(cards)
    /\ UNCHANGED <<cards, lst>>

\* for reversed_card in reversed(deck): print(reversed_card), one iteration
ReversedNext ==
    /\ pc = "reversed"
    /\ LET n == reversed_next(cards, it_index)
       IN  /\ it_index' = n.index
           /\ IF n.stop THEN EndCell("reversed")
              ELSE PrintCard("reversed", n.item) /\ UNCHANGED <<pc, done>>
    /\ UNCHANGED <<cards, call, result, lst>>

\* sorted(deck, key=spades_high): a new list and an iterator over the deck
SortedStart ==
    /\ StartCell("sorted", "sorted")
    /\ pc' = "sorted_iter"
    /\ it_index' = iter_new
    /\ lst' = <<>>
    /\ UNCHANGED cards

\* a faulty variant: the deck's own list sorted in place, deck._cards.sort(key=spades_high)
SortedIterNext_inplace ==
    /\ pc = "sorted_iter"
    /\ LET n == iter_next(cards, it_index)
       IN  IF n.stop
           THEN /\ cards' = sorted_spades_high(cards)
                /\ lst' = cards'
                /\ it_index' = iter_new
                /\ pc' = "sorted_print"
           ELSE /\ lst' = Append(lst, n.item)
                /\ it_index' = n.index
                /\ pc' = pc
                /\ cards' = cards
    /\ UNCHANGED <<call, result, yielded, stdout, done>>

\* sorted(deck, key=spades_high): the list takes the next item of the deck; when
\* the deck is exhausted the list is sorted and the for loop over it begins
SortedIterNext ==
    /\ pc = "sorted_iter"
    /\ LET n == iter_next(cards, it_index)
       IN  IF n.stop
           THEN /\ lst' = sorted_spades_high(lst)
                /\ it_index' = iter_new
                /\ pc' = "sorted_print"
           ELSE /\ lst' = Append(lst, n.item)
                /\ it_index' = n.index
                /\ pc' = pc
    /\ UNCHANGED <<cards, call, result, yielded, stdout, done>>

\* for sorted_card in sorted(...): print(sorted_card), one iteration over the list
SortedPrintNext ==
    /\ pc = "sorted_print"
    /\ IF it_index < Len(lst)
       THEN /\ it_index' = it_index + 1
            /\ PrintCard("sorted", lst[it_index + 1])
            /\ UNCHANGED <<pc, done>>
       ELSE /\ it_index' = it_index
            /\ EndCell("sorted")
    /\ UNCHANGED <<cards, call, result, lst>>

Next ==
    \/ LenCell
    \/ ChoiceCell
    \/ TypeCell
    \/ GetItem
    \/ SliceCell
    \/ ForStart
    \/ ForNext
    \/ ReversedStart
    \/ ReversedNext
    \/ SortedStart
    \/ SortedIterNext
    \/ SortedPrintNext

Spec == Init /\ [][Next]_vars

\* the running for cell keeps running: the interpreter executes its loop to the end
FairSpec ==
    /\ Spec
    /\ WF_vars(ForNext)

----------------------------------------------------------------------------
\* The properties

\* the 13 ranks and the 4 suits written out
Ranks13 == <<"2", "3", "4", "5", "6", "7", "8", "9", "10", "J", "Q", "K", "A">>
Suits4 == <<"spades", "diamonds", "clubs", "hearts">>
AllCards == {Card(Ranks13[r], Suits4[s]) : r \in 1..13, s \in 1..4}

Reverse(s) == [k \in 1..Len(s) |-> s[Len(s) + 1 - k]]

\* C1: the deck holds 52 cards in every state, whatever cells have run, and
\* every len(deck) returns 52.
LengthIs52 ==
    /\ FrenchDeck_len(cards) = 52
    /\ call.op = "len" => result = IntResult(52)

\* len(deck) has returned after all three loop cells have run
LengthIs52Witness ==
    /\ call.op = "len"
    /\ result = IntResult(52)
    /\ done = Cells

\* C2: the constructed deck has at position i (from 0) the card of rank
\* i mod 13 and suit i div 13, so ("2", "spades") at position 0, and holds
\* each of the 52 (rank, suit) pairs exactly once.
ConstructOrder ==
    /\ Len(cards) = 52
    /\ \A i \in 0..51 :
          cards[i + 1] = Card(Ranks13[(i % 13) + 1], Suits4[(i \div 13) + 1])
    /\ cards[1] = Card("2", "spades")
    /\ \A c \in AllCards : Cardinality({k \in 1..Len(cards) : cards[k] = c}) = 1

\* the cell deck = FrenchDeck() has run and the deck starts and ends as claimed
ConstructOrderWitness ==
    /\ call.op = "len"
    /\ cards[1] = Card("2", "spades")
    /\ cards[14] = Card("2", "diamonds")
    /\ cards[52] = Card("A", "hearts")

\* C3: deck[i] raises IndexError exactly when i >= 52 or i < -52, so deck[len(deck)]
\* does; for every other i it returns a card of the deck; the deck is as
\* constructed afterwards.
GetItemRange ==
    (call.op = "getitem" /\ call.position.kind = "int") =>
        LET i == call.position.i
        IN  /\ result.kind = "IndexError" <=> (i >= 52 \/ i < 0 - 52)
            /\ result.kind # "IndexError" =>
                  /\ result.kind = "Card"
                  /\ \E k \in 1..Len(cards) : cards[k] = result.value
            /\ i = FrenchDeck_len(cards) => result = IndexError
            /\ cards = FrenchDeck_init

\* deck[len(deck)] has raised IndexError
GetItemRangeWitness ==
    /\ call.op = "getitem"
    /\ call.position = IntPosition(52)
    /\ result = IndexError

\* C4: no step changes deck._cards, so deck[i] gives the same answer before
\* and after every step, for every valid position i.
ElementStable ==
    [][/\ cards' = cards
       /\ \A i \in 0..(FrenchDeck_len(cards) - 1) :
             FrenchDeck_getitem(cards', IntPosition(i))
                = FrenchDeck_getitem(cards, IntPosition(i))]_vars

\* deck[i] has returned a card after all three loop cells have run
ElementStableWitness ==
    /\ call.op = "getitem"
    /\ call.position.kind = "int"
    /\ result.kind = "Card"
    /\ done = Cells

\* C5: for k in 1..52, deck[-k] returns the card deck[52 - k] returns.
NegativeIndex ==
    (call.op = "getitem" /\ call.position.kind = "int"
        /\ call.position.i \in (0 - 52)..(0 - 1)) =>
        LET i == call.position.i
        IN  /\ result.kind = "Card"
            /\ result = FrenchDeck_getitem(cards, IntPosition(52 + i))
            /\ result.value = cards[52 + i + 1]
            /\ i = 0 - 1 =>
                  result = FrenchDeck_getitem(cards, IntPosition(FrenchDeck_len(cards) - 1))

\* deck[-1] has returned the last card
NegativeIndexWitness ==
    /\ call.op = "getitem"
    /\ call.position = IntPosition(0 - 1)
    /\ result = CardResult(Card("A", "hearts"))

\* C6: deck[:3] and deck[0:3] return the list of deck[0], deck[1], deck[2], and
\* the deck still has its 52 cards.
SliceFirstThree ==
    (call.op = "getitem"
        /\ call.position \in {SlicePosition(None, Some(3)), SlicePosition(Some(0), Some(3))}) =>
        /\ result.kind = "list"
        /\ result.value = [k \in 1..3 |->
                              FrenchDeck_getitem(cards, IntPosition(k - 1)).value]
        /\ result.value = <<Card("2", "spades"), Card("3", "spades"), Card("4", "spades")>>
        /\ Len(cards) = 52

\* deck[:3] has returned a list of three cards
SliceFirstThreeWitness ==
    /\ call.op = "getitem"
    /\ call.position = SlicePosition(None, Some(3))
    /\ result.kind = "list"
    /\ Len(result.value) = 3

\* C7: once the for cell and the reversed cell have both finished, the k-th
\* card of reversed(deck) is the (51 - k)-th card of the forward loop, for k in
\* 0..51, and reversing the reversed output gives the forward output.
ReverseOpposite ==
    ({"for", "reversed"} \subseteq done) =>
        /\ Len(yielded["for"]) = 52
        /\ Len(yielded["reversed"]) = 52
        /\ \A k \in 0..51 : yielded["reversed"][k + 1] = yielded["for"][(51 - k) + 1]
        /\ Reverse(yielded["reversed"]) = yielded["for"]
        /\ Reverse(stdout["reversed"]) = stdout["for"]

\* both loops have finished
ReverseOppositeWitness ==
    /\ {"for", "reversed"} \subseteq done
    /\ yielded["reversed"][1] = Card("A", "hearts")
    /\ yielded["for"][1] = Card("2", "spades")

\* the for loop's progress: what a running and a finished loop have yielded
IterateState ==
    /\ pc = "for" =>
          /\ it_index \in 0..52
          /\ yielded["for"] = SubSeq(cards, 1, it_index)
    /\ "for" \in done =>
          /\ yielded["for"] = cards
          /\ Len(yielded["for"]) = 52
          /\ call.op = "for" => (result = NoneResult /\ it_index = 52)

\* a start of the for loop begins at index 0 with nothing yielded
IterateFresh ==
    (pc # "for" /\ pc' = "for") => (it_index' = 0 /\ yielded'["for"] = <<>>)

SortIdempotent ==
    (pc = "sorted_print" \/ "sorted" \in done) =>
        /\ sorted_spades_high(lst) = lst
        /\ Len(lst) = 52
        /\ \A k \in 1..Len(cards) :
              Cardinality({m \in 1..Len(lst) : lst[m] = cards[k]}) = 1
        /\ \A k \in 1..(Len(lst) - 1) : spades_high(lst[k]) <= spades_high(lst[k + 1])
        /\ cards = FrenchDeck_init
        /\ "sorted" \in done => yielded["sorted"] = lst

\* the sorted cell has finished: the two of clubs first, the ace of spades last
SortIdempotentWitness ==
    /\ "sorted" \in done
    /\ yielded["sorted"][1] = Card("2", "clubs")
    /\ yielded["sorted"][52] = Card("A", "spades")

\* any two of the 52 cards have different representations, in both forms
ReprDiffer ==
    \A c1 \in AllCards, c2 \in AllCards :
        c1 # c2 => /\ CardExample_repr(c1) # CardExample_repr(c2)
                   /\ Card_repr(c1) # Card_repr(c2)

\* C10: two cards that differ in rank or in suit have different
\* representations, in the form Card('7', 'hearts') and in the namedtuple's
\* form, and the lines a loop prints for different cards differ.
ReprInjective ==
    /\ ReprDiffer
    /\ \A c \in Cells : \A i \in DOMAIN stdout[c], j \in DOMAIN stdout[c] :
          yielded[c][i] # yielded[c][j] => stdout[c][i] # stdout[c][j]

\* the for cell has printed 52 different lines
ReprInjectiveWitness ==
    /\ "for" \in done
    /\ Cardinality({stdout["for"][i] : i \in DOMAIN stdout["for"]}) = 52
    /\ stdout["for"][1] = "Card(rank='2', suit='spades')"
    /\ CardExample_repr(yielded["for"][1]) = "Card('2', 'spades')"
====
